---- MODULE Spec2Model ----
(***************************************************************************)
(* Job application tracker API (day17, server.js): an Express application  *)
(* holding an in-memory array `jobs` and six route handlers over it.       *)
(*                                                                         *)
(* JavaScript values are modelled as records [t, n, s]: t is the type tag, *)
(* n the numeric value of a number, s the text of a string.  A JSON object *)
(* is a function from its keys (strings) to such values.  A path parameter *)
(* is a sequence of one-character strings, so that parseInt is computed    *)
(* character by character as the language defines it.                      *)
(***************************************************************************)
EXTENDS Integers, Sequences, FiniteSets, TLC

\* POST is not taken once the array holds this many records.
MaxLen == 2

\* Most requests that arrive together in the concurrent specification.
MaxInflight == 3

(***************************** JavaScript values ***************************)

Num(n) == [t |-> "number", n |-> n, s |-> ""]
Str(s) == [t |-> "string", n |-> 0, s |-> s]
NaN == [t |-> "NaN", n |-> 0, s |-> ""]
Undefined == [t |-> "undefined", n |-> 0, s |-> ""]

\* The text of a natural number: String(n).
RECURSIVE NatString(_)
NatString(n) ==
  LET digit == <<"0", "1", "2", "3", "4", "5", "6", "7", "8", "9">>[(n % 10) + 1]
  IN  IF n < 10 THEN digit ELSE NatString(n \div 10) \o digit

\* a == b : as ===, but a number and a string are compared as numbers.
LooseEq(a, b) ==
  /\ a.t # "NaN" /\ b.t # "NaN"
  /\ \/ a = b
     \/ a.t = "number" /\ b.t = "string" /\ a.n >= 0 /\ b.s = NatString(a.n)
     \/ a.t = "string" /\ b.t = "number" /\ b.n >= 0 /\ a.s = NatString(b.n)

\* a === b on primitives: NaN equals nothing, not even itself.
StrictEq(a, b) == a.t # "NaN" /\ b.t # "NaN" /\ a = b

\* {} : the object with no keys.
EmptyObj == [k \in {} |-> Undefined]

\* obj.id : the value under key "id", undefined when the key is absent.
IdOf(obj) == IF "id" \in DOMAIN obj THEN obj["id"] ELSE Undefined

\* { ...b, ...a } : the spread operands in the wrong order.
MergeOldWins(a, b) ==
  [k \in (DOMAIN a) \cup (DOMAIN b) |-> IF k \in DOMAIN a THEN a[k] ELSE b[k]]

\* { ...a, ...b } : keys of both, b's value where both have the key.
Merge(a, b) ==
  [k \in (DOMAIN a) \cup (DOMAIN b) |-> IF k \in DOMAIN b THEN b[k] ELSE a[k]]

(********************************* parseInt ********************************)

DigitChars == <<"0", "1", "2", "3", "4", "5", "6", "7", "8", "9">>
LowerChars == <<"a", "b", "c", "d", "e", "f", "g", "h", "i", "j", "k", "l", "m",
                "n", "o", "p", "q", "r", "s", "t", "u", "v", "w", "x", "y", "z">>
UpperChars == <<"A", "B", "C", "D", "E", "F", "G", "H", "I", "J", "K", "L", "M",
                "N", "O", "P", "Q", "R", "S", "T", "U", "V", "W", "X", "Y", "Z">>

\* Position of c in seq, counted from 0; Len(seq) when c is not in it.
IndexIn(seq, c) ==
  IF \E i \in 1..Len(seq) : seq[i] = c
  THEN (CHOOSE i \in 1..Len(seq) : seq[i] = c) - 1
  ELSE Len(seq)

\* The value of c as a digit (0..35); 36 when c is no digit in any radix.
DigitValue(c) ==
  IF IndexIn(DigitChars, c) < 10 THEN IndexIn(DigitChars, c)
  ELSE IF IndexIn(LowerChars, c) < 26 THEN 10 + IndexIn(LowerChars, c)
  ELSE IF IndexIn(UpperChars, c) < 26 THEN 10 + IndexIn(UpperChars, c)
  ELSE 36

IsWhiteSpace(c) == c = " "

RECURSIVE TrimStart(_)
TrimStart(str) ==
  IF str # <<>> /\ IsWhiteSpace(Head(str)) THEN TrimStart(Tail(str)) ELSE str

\* The longest prefix of str made of radix-R digits.
RECURSIVE DigitPrefix(_, _)
DigitPrefix(str, R) ==
  IF str # <<>> /\ DigitValue(Head(str)) < R
  THEN <<Head(str)>> \o DigitPrefix(Tail(str), R)
  ELSE <<>>

\* The integer that the radix-R digits of Z denote.
RECURSIVE DigitsToInt(_, _, _)
DigitsToInt(Z, R, acc) ==
  IF Z = <<>> THEN acc ELSE DigitsToInt(Tail(Z), R, acc * R + DigitValue(Head(Z)))

HasHexPrefix(str) ==
  Len(str) >= 2 /\ str[1] = "0" /\ str[2] \in {"x", "X"}

\* Number(string) in place of parseInt: the whole string must be a numeral.
parseIntStrict(string, radix) ==
  LET sign == IF string # <<>> /\ Head(string) = "-" THEN -1 ELSE 1
      S1 == IF string # <<>> /\ Head(string) = "-" THEN Tail(string) ELSE string
      Z == DigitPrefix(S1, 10)
  IN  IF Z = <<>> \/ Z # S1 THEN NaN ELSE Num(sign * DigitsToInt(Z, 10, 0))

\* parseInt(string, radix); radix 0 stands for a call without the argument.
parseInt(string, radix) ==
  LET S0 == TrimStart(string)
      sign == IF S0 # <<>> /\ Head(S0) = "-" THEN -1 ELSE 1
      S1 == IF S0 # <<>> /\ Head(S0) \in {"+", "-"} THEN Tail(S0) ELSE S0
      stripPrefix == radix = 0 \/ radix = 16
      hex == stripPrefix /\ HasHexPrefix(S1)
      R == IF hex THEN 16 ELSE IF radix = 0 THEN 10 ELSE radix
      S2 == IF hex THEN Tail(Tail(S1)) ELSE S1
      Z == DigitPrefix(S2, R)
  IN  IF radix # 0 /\ (radix < 2 \/ radix > 36) THEN NaN
      ELSE IF Z = <<>> THEN NaN
      ELSE Num(sign * DigitsToInt(Z, R, 0))

(******************************* Array helpers *****************************)

\* collection.findLastIndex(job => job.id === jobId)
FindLastIndex(collection, jobId) ==
  LET hits == {i \in 1..Len(collection) : StrictEq(IdOf(collection[i]), jobId)}
  IN  IF hits = {} THEN -1
      ELSE (CHOOSE i \in hits : \A j \in hits : i >= j) - 1

\* collection.findIndex(job => job.id === jobId): 0-based, -1 when none matches.
FindIndex(collection, jobId) ==
  LET hits == {i \in 1..Len(collection) : StrictEq(IdOf(collection[i]), jobId)}
  IN  IF hits = {} THEN -1
      ELSE (CHOOSE i \in hits : \A j \in hits : i <= j) - 1

\* ...collection[index] : the element's own keys; nothing when the index is
\* outside the array (collection[-1] is undefined, which spreads to no keys).
SpreadAt(collection, index) ==
  IF index \in 0..(Len(collection) - 1) THEN collection[index + 1] ELSE EmptyObj

\* collection[index] = value ; past the end the array grows, and the slots
\* skipped are holes (read back as undefined).
AssignAt(collection, index, value) ==
  IF index < Len(collection)
  THEN [collection EXCEPT ![index + 1] = value]
  ELSE [i \in 1..(index + 1) |->
          IF i <= Len(collection) THEN collection[i]
          ELSE IF i = index + 1 THEN value ELSE EmptyObj]

\* Where splice starts: a negative index counts from the end.
SpliceStart(collection, index) ==
  IF index < 0
  THEN (IF Len(collection) + index < 0 THEN 0 ELSE Len(collection) + index)
  ELSE (IF index > Len(collection) THEN Len(collection) ELSE index)

\* collection.splice(index) : without the count, everything from index on goes.
SpliceToEnd(collection, index) ==
  SubSeq(collection, 1, SpliceStart(collection, index))

\* collection.splice(index, 1)
Splice1(collection, index) ==
  LET start == SpliceStart(collection, index)
  IN  IF start >= Len(collection) THEN collection
      ELSE [i \in 1..(Len(collection) - 1) |->
              IF i <= start THEN collection[i] ELSE collection[i + 1]]

\* value + 1 : addition on a number, concatenation on a string, NaN on undefined.
PlusOne(value) ==
  IF value.t = "number" THEN Num(value.n + 1)
  ELSE IF value.t = "string" THEN Str(value.s \o "1")
  ELSE NaN

\* getNextIdFromCollection(collection); no route handler calls it.
getNextIdFromCollection(collection) ==
  IF Len(collection) = 0 THEN Num(1)
  ELSE LET lastRecord == collection[Len(collection)]
       IN  PlusOne(IdOf(lastRecord))

(****************************** Request inputs *****************************)

\* Request bodies (req.body after express.json()).
Bodies ==
  { EmptyObj,
    [status |-> Str("Interviewing")],
    [id |-> Num(1), status |-> Str("Applied")],
    [id |-> Num(2)],
    [id |-> Str("1")] }

\* Values of the :id path parameter (never empty: /jobs/ is not routed to
\* the /jobs/:id handlers).
PathIds ==
  { <<"1">>, <<"2">>, <<"3">>, <<"1", "a", "b", "c">>, <<"a", "b", "c">>,
    <<"2", ".", "5">>, <<"0", "x", "2">>, <<"-", "1">> }

\* Contents of ./jobs when the server starts.
SeedJobs ==
  { <<>>,
    <<[id |-> Num(1), status |-> Str("Applied")]>>,
    <<[id |-> Num(1), status |-> Str("Applied")],
      [id |-> Num(2), status |-> Str("Interviewing")],
      [id |-> Num(3), status |-> Str("Applied")]>> }

NotFoundBody == [message |-> Str("Job not found")]
DeletedBody == [message |-> Str("Job deleted successfully")]
WelcomeBody == Str("welcome to the Job App tracker API!!")

NoRequest == [method |-> "NONE", route |-> "", id |-> <<>>, body |-> EmptyObj]

(********************************** State **********************************)

VARIABLES
  jobs,   \* the in-memory array of job records
  req,    \* the request handled last: method, route, :id, body
  res,    \* the response to it: status code and payload
  old,    \* jobs as it was when that request arrived
  arrived,  \* the requests that arrived together (concurrent specification)
  inflight, \* those of them whose handler has not been called yet
  active,   \* handler calls begun and not finished: request, position, locals
  start     \* jobs as it was when they arrived (unused while none has)

vars == <<jobs, req, res, old, arrived, inflight, active, start>>
conc == <<arrived, inflight, active, start>>

Init ==
  /\ jobs \in SeedJobs
  /\ req = NoRequest
  /\ res = [status |-> 0, body |-> EmptyObj]
  /\ old = jobs
  /\ arrived = {}
  /\ inflight = {}
  /\ active = {}
  /\ start = <<>>

\* What a handler leaves behind: the array and the response it sent.
Outcome(collection, status, body) ==
  [jobs |-> collection, res |-> [status |-> status, body |-> body]]

\* app.get("/") handler
getRootHandler(collection) == Outcome(collection, 200, WelcomeBody)

\* app.get("/jobs") handler
getJobsHandler(collection) == Outcome(collection, 200, collection)

\* app.get("/jobs/:id") handler; jobs.find returns the first match, and an
\* object is always truthy.
getJobHandler(collection, id) ==
  LET jobId == parseInt(id, 0)
      found == FindIndex(collection, jobId)
  IN  IF found # -1
      THEN Outcome(collection, 200, collection[found + 1])
      ELSE Outcome(collection, 404, NotFoundBody)

\* The POST handler as it would be with the id helper called.
postJobHandlerAssignsId(collection, body) ==
  LET newJob == Merge(body, [id |-> getNextIdFromCollection(collection)])
  IN  Outcome(Append(collection, newJob), 201, newJob)

\* app.post("/jobs") handler
postJobHandler(collection, body) ==
  LET newJob == body
  IN  Outcome(Append(collection, newJob), 201, newJob)

\* app.patch("/jobs/:id") handler
patchJobHandler(collection, id, body) ==
  LET jobId == parseInt(id, 10)
      jobUpdates == body
      jobIndex == FindIndex(collection, jobId)
      updatedJob == Merge(SpreadAt(collection, jobIndex), jobUpdates)
  IN  IF jobIndex # -1
      THEN Outcome(AssignAt(collection, jobIndex, updatedJob), 200, updatedJob)
      ELSE Outcome(collection, 404, NotFoundBody)

\* The DELETE handler with the splice moved out of the existence check.
deleteJobHandlerUnchecked(collection, id) ==
  LET jobId == parseInt(id, 10)
      jobIndex == FindIndex(collection, jobId)
  IN  IF jobIndex # -1
      THEN Outcome(Splice1(collection, jobIndex), 200, DeletedBody)
      ELSE Outcome(Splice1(collection, jobIndex), 404, NotFoundBody)

\* app.delete("/jobs/:id") handler
deleteJobHandler(collection, id) ==
  LET jobId == parseInt(id, 10)
      jobIndex == FindIndex(collection, jobId)
  IN  IF jobIndex # -1
      THEN Outcome(Splice1(collection, jobIndex), 200, DeletedBody)
      ELSE Outcome(collection, 404, NotFoundBody)

\* One request handled from start to finish.
Handled(request, outcome) ==
  /\ req' = request
  /\ old' = jobs
  /\ jobs' = outcome.jobs
  /\ res' = outcome.res
  /\ UNCHANGED conc

Request(method, route, id, body) ==
  [method |-> method, route |-> route, id |-> id, body |-> body]

GetRoot ==
  Handled(Request("GET", "/", <<>>, EmptyObj), getRootHandler(jobs))

GetJobs ==
  Handled(Request("GET", "/jobs", <<>>, EmptyObj), getJobsHandler(jobs))

GetJob(id) ==
  Handled(Request("GET", "/jobs/:id", id, EmptyObj), getJobHandler(jobs, id))

PostJob(body) ==
  /\ Len(jobs) < MaxLen
  /\ Handled(Request("POST", "/jobs", <<>>, body), postJobHandler(jobs, body))

PatchJob(id, body) ==
  Handled(Request("PATCH", "/jobs/:id", id, body), patchJobHandler(jobs, id, body))

DeleteJob(id) ==
  Handled(Request("DELETE", "/jobs/:id", id, EmptyObj), deleteJobHandler(jobs, id))

Next ==
  \/ GetRoot
  \/ GetJobs
  \/ \E id \in PathIds : GetJob(id)
  \/ \E body \in Bodies : PostJob(body)
  \/ \E id \in PathIds, body \in Bodies : PatchJob(id, body)
  \/ \E id \in PathIds : DeleteJob(id)

Spec == Init /\ [][Next]_vars

(************************ Handlers, statement by statement ******************)

\* The mutating requests that may arrive together.
ConcRequests ==
  { Request("PATCH", "/jobs/:id", <<"1">>, [status |-> Str("Interviewing")]),
    Request("PATCH", "/jobs/:id", <<"1">>, [id |-> Num(2)]),
    Request("PATCH", "/jobs/:id", <<"2">>, [id |-> Num(1), status |-> Str("Applied")]),
    Request("DELETE", "/jobs/:id", <<"1">>, EmptyObj),
    Request("DELETE", "/jobs/:id", <<"2">>, EmptyObj),
    Request("POST", "/jobs", <<>>, [id |-> Num(1), status |-> Str("Applied")]) }

InitConc ==
  /\ jobs \in SeedJobs
  /\ req = NoRequest
  /\ res = [status |-> 0, body |-> EmptyObj]
  /\ old = jobs
  /\ arrived \in {R \in SUBSET ConcRequests : Cardinality(R) \in 2..MaxInflight}
  /\ inflight = arrived
  /\ active = {}
  /\ start = jobs

\* A handler that yields between its lookup and its write.
Yielding == TRUE

\* The handlers are plain synchronous callbacks: none awaits between its
\* lookup and its write, so the event loop calls the next one only when
\* the one before has returned.
RunToCompletion == active = {}

\* The event loop calls the handler of a request that has arrived.
Begin(r) ==
  /\ r \in inflight
  /\ RunToCompletion
  /\ inflight' = inflight \ {r}
  /\ active' = active \cup
       {[request |-> r, pc |-> "lookup", jobIndex |-> -1, staged |-> EmptyObj]}
  /\ UNCHANGED <<jobs, req, res, old, arrived, start>>

\* The statements before the if: jobId, jobIndex, updatedJob (PATCH);
\* jobId, jobIndex (DELETE); newJob (POST).
Lookup(a) ==
  /\ a \in active
  /\ a.pc = "lookup"
  /\ LET r == a.request
         jobIndex == IF r.method = "POST" THEN -1
                     ELSE FindIndex(jobs, parseInt(r.id, 10))
         staged == IF r.method = "PATCH" THEN Merge(SpreadAt(jobs, jobIndex), r.body)
                   ELSE IF r.method = "POST" THEN r.body
                   ELSE EmptyObj
     IN  active' = (active \ {a}) \cup
           {[a EXCEPT !.pc = "write", !.jobIndex = jobIndex, !.staged = staged]}
  /\ UNCHANGED <<jobs, req, res, old, arrived, inflight, start>>

\* The write and the response: jobs[jobIndex] = updatedJob (PATCH),
\* jobs.splice(jobIndex, 1) (DELETE), jobs.push(newJob) (POST).
Write(a) ==
  /\ a \in active
  /\ a.pc = "write"
  /\ LET r == a.request
         outcome ==
           IF r.method = "POST"
           THEN Outcome(Append(jobs, a.staged), 201, a.staged)
           ELSE IF a.jobIndex = -1
           THEN Outcome(jobs, 404, NotFoundBody)
           ELSE IF r.method = "PATCH"
           THEN Outcome(AssignAt(jobs, a.jobIndex, a.staged), 200, a.staged)
           ELSE Outcome(Splice1(jobs, a.jobIndex), 200, DeletedBody)
     IN  /\ jobs' = outcome.jobs
         /\ res' = outcome.res
         /\ req' = r
  /\ old' = jobs
  /\ active' = active \ {a}
  /\ UNCHANGED <<arrived, inflight, start>>

NextConc ==
  \/ \E r \in ConcRequests : Begin(r)
  \/ \E a \in active : Lookup(a)
  \/ \E a \in active : Write(a)

SpecConc == InitConc /\ [][NextConc]_vars

(************************* Vocabulary of the properties ********************)

\* The decimal numeral of a natural number, as path characters.
RECURSIVE NatNumeral(_)
NatNumeral(n) ==
  IF n < 10 THEN <<DigitChars[n + 1]>>
  ELSE NatNumeral(n \div 10) \o <<DigitChars[(n % 10) + 1]>>

\* The decimal numeral of an integer: the path of a request for /jobs/i.
Numeral(i) == IF i < 0 THEN <<"-">> \o NatNumeral(-i) ELSE NatNumeral(i)

\* The integers the properties quantify over as target ids.
TargetIds == -1..4

\* Positions (1-based) of the records of collection that carry id i.
Carrying(collection, i) ==
  {k \in 1..Len(collection) :
     "id" \in DOMAIN collection[k] /\ collection[k]["id"] = Num(i)}

\* The lowest position of collection carrying id i.
FirstCarrying(collection, i) ==
  CHOOSE k \in Carrying(collection, i) : \A j \in Carrying(collection, i) : k <= j

\* collection without the record at position k (1-based).
Without(collection, k) ==
  SubSeq(collection, 1, k - 1) \o SubSeq(collection, k + 1, Len(collection))

OnJob == req.route = "/jobs/:id"
IsNotFound == res.status = 404 /\ res.body = NotFoundBody

(********************************** Claims *********************************)

\* C1: a GET, PATCH or DELETE on /jobs/i, i an integer that no stored record
\* carries as its id, answers 404 with {message: "Job not found"}.
C1_MissingIdIsNotFound ==
  \A i \in TargetIds :
    (OnJob /\ req.id = Numeral(i) /\ Carrying(old, i) = {}) => IsNotFound

\* C1 witness: a PATCH for an id absent from a non-empty array was answered 404.
C1_Witness ==
  /\ req.method = "PATCH" /\ req.id = Numeral(3)
  /\ old # <<>> /\ Carrying(old, 3) = {}
  /\ req.body # EmptyObj
  /\ IsNotFound

\* C2: POST /jobs answers 201 with the body and appends the body, unchanged,
\* as the last element; a GET /jobs right after it returns the old array
\* followed by the body.
C2_PostAppendsVerbatim ==
  [][ /\ (req'.method = "POST" =>
            /\ res' = [status |-> 201, body |-> req'.body]
            /\ jobs' = Append(jobs, req'.body))
      /\ ((req.method = "POST" /\ req'.method = "GET" /\ req'.route = "/jobs") =>
            /\ res'.status = 200
            /\ res'.body = Append(old, req.body)) ]_vars

\* C2 witness: a body without an id was posted onto a non-empty array and is
\* stored without one.
C2_Witness ==
  /\ req.method = "POST" /\ old # <<>>
  /\ "id" \notin DOMAIN req.body
  /\ "id" \notin DOMAIN jobs[Len(jobs)]

\* C3: PATCH /jobs/i, when a record carries id i, returns and stores at the
\* position of the first such record the shallow merge: the body's value for
\* every key of the body, the old value for every other key of the old record.
C3_PatchMerges ==
  \A i \in TargetIds :
    (req.method = "PATCH" /\ req.id = Numeral(i) /\ Carrying(old, i) # {}) =>
      LET k == FirstCarrying(old, i)
      IN  /\ res.status = 200
          /\ Len(jobs) = Len(old)
          /\ jobs[k] = res.body
          /\ DOMAIN res.body = (DOMAIN old[k]) \cup (DOMAIN req.body)
          /\ \A key \in DOMAIN req.body : res.body[key] = req.body[key]
          /\ \A key \in (DOMAIN old[k]) \ (DOMAIN req.body) :
               res.body[key] = old[k][key]

\* C3 witness: a PATCH overwrote the status of a record and kept its id.
C3_Witness ==
  /\ req.method = "PATCH" /\ req.id = Numeral(1)
  /\ Carrying(old, 1) # {}
  /\ req.body = [status |-> Str("Interviewing")]
  /\ old[FirstCarrying(old, 1)] = [id |-> Num(1), status |-> Str("Applied")]
  /\ res.body = [id |-> Num(1), status |-> Str("Interviewing")]

\* C8: a request answered 404 leaves the array exactly as it was.
C8_NotFoundWritesNothing ==
  res.status = 404 => jobs = old

\* C8 witness: a PATCH with a non-empty body for a missing id left a non-empty
\* array as it was.
C8_Witness ==
  /\ req.method = "PATCH" /\ res.status = 404
  /\ req.body # EmptyObj /\ old # <<>> /\ jobs = old

\* C9: when several records may carry id i, GET /jobs/i returns the one at the
\* lowest position and changes nothing; PATCH and DELETE act on that record.
C9_FirstMatchWins ==
  \A i \in TargetIds :
    (OnJob /\ req.id = Numeral(i) /\ Carrying(old, i) # {}) =>
      LET k == FirstCarrying(old, i)
      IN  /\ req.method = "GET" => (res.body = old[k] /\ jobs = old)
          /\ req.method = "PATCH" =>
               /\ jobs[k] = Merge(old[k], req.body)
               /\ \A j \in (1..Len(old)) \ {k} : jobs[j] = old[j]
          /\ req.method = "DELETE" => jobs = Without(old, k)

\* C9 witness: a DELETE on an array holding two different records with the
\* same id removed the first and kept the second.
C9_Witness ==
  /\ req.method = "DELETE" /\ req.id = Numeral(1)
  /\ Cardinality(Carrying(old, 1)) = 2
  /\ \E a, b \in Carrying(old, 1) : old[a] # old[b]
  /\ Cardinality(Carrying(jobs, 1)) = 1

\* C10: a successful PATCH keeps the length and every other position; a
\* successful DELETE removes one record and keeps the rest in order; GET / and
\* GET /jobs change nothing.
C10_OnlyTheMatchedRecord ==
  /\ (req.method = "PATCH" /\ res.status = 200) =>
       /\ Len(jobs) = Len(old)
       /\ \E k \in 1..Len(old) : \A j \in (1..Len(old)) \ {k} : jobs[j] = old[j]
  /\ (req.method = "DELETE" /\ res.status = 200) =>
       \E k \in 1..Len(old) : jobs = Without(old, k)
  /\ (req.method = "GET" /\ req.route \in {"/", "/jobs"}) => jobs = old

\* C10 witness: a DELETE removed the middle record of three.
C10_Witness ==
  /\ req.method = "DELETE" /\ res.status = 200
  /\ Len(old) = 3 /\ jobs = <<old[1], old[3]>>

\* C4 (as claimed): DELETE /jobs/i, when a record carries id i, answers
\* {message: "Job deleted successfully"}, shortens the array by exactly one,
\* and leaves no record with id i in it.
C4_DeleteRemovesTheId ==
  \A i \in TargetIds :
    (req.method = "DELETE" /\ req.id = Numeral(i) /\ Carrying(old, i) # {}) =>
      /\ res = [status |-> 200, body |-> DeletedBody]
      /\ Len(jobs) = Len(old) - 1
      /\ Carrying(jobs, i) = {}

\* C5 (as claimed): a record added by POST has the id of the previous last
\* record plus one (1 on an empty array), and no two stored records carry the
\* same id.
C5_IdsAssignedAndUnique ==
  /\ req.method = "POST" =>
       IdOf(jobs[Len(jobs)]) =
         (IF old = <<>> THEN Num(1) ELSE PlusOne(IdOf(old[Len(old)])))
  /\ \A a, b \in 1..Len(jobs) : a # b => IdOf(jobs[a]) # IdOf(jobs[b])

DecimalDigits == {DigitChars[k] : k \in 1..Len(DigitChars)}

AllDecimalDigits(str) ==
  str # <<>> /\ \A k \in 1..Len(str) : str[k] \in DecimalDigits

\* str is the decimal numeral of an integer.
IsDecimalNumeral(str) ==
  \/ AllDecimalDigits(str)
  \/ str # <<>> /\ Head(str) = "-" /\ AllDecimalDigits(Tail(str))

\* str, after leading blanks and one sign, does not start with a decimal digit.
NoLeadingInteger(str) ==
  LET S0 == TrimStart(str)
      S1 == IF S0 # <<>> /\ Head(S0) \in {"+", "-"} THEN Tail(S0) ELSE S0
  IN  S1 = <<>> \/ Head(S1) \notin DecimalDigits

\* What the handler of `method` leaves when asked for path on collection.
JobOutcome(method, collection, path, body) ==
  CASE method = "GET" -> getJobHandler(collection, path)
    [] method = "PATCH" -> patchJobHandler(collection, path, body)
    [] method = "DELETE" -> deleteJobHandler(collection, path)

\* C6 (as claimed): an :id that is not the decimal numeral of an integer
\* matches no record: the answer is 404 and no stored record is operated on.
C6_MalformedIdIsNotFound ==
  (OnJob /\ ~IsDecimalNumeral(req.id)) => (IsNotFound /\ jobs = old)

\* C6 (amended): an :id with no leading integer is answered 404 and changes
\* nothing; an :id made of the numeral of i followed by a non-digit is
\* handled exactly as /jobs/i, except that GET reads 0x... as hexadecimal.
C6_LeadingIntegerDecides ==
  /\ (OnJob /\ NoLeadingInteger(req.id)) => (IsNotFound /\ jobs = old)
  /\ OnJob => res.status \in {200, 404}
  /\ \A i \in TargetIds : \A n \in 1..(Len(req.id) - 1) :
       ( /\ OnJob
         /\ SubSeq(req.id, 1, n) = Numeral(i)
         /\ req.id[n + 1] \notin DecimalDigits
         /\ ~(req.method = "GET" /\ HasHexPrefix(req.id)) ) =>
       [jobs |-> jobs, res |-> res] =
         JobOutcome(req.method, old, Numeral(i), req.body)
  /\ \A i \in TargetIds :
       (OnJob /\ req.method = "GET" /\ req.id = <<"0", "x">> \o Numeral(i)) =>
       [jobs |-> jobs, res |-> res] = getJobHandler(old, Numeral(i))

\* C6 witness: GET /jobs/1abc returned the stored record with id 1.
C6_Witness ==
  /\ req.method = "GET" /\ req.id = <<"1", "a", "b", "c">>
  /\ res.status = 200 /\ IdOf(res.body) = Num(1)

\* The array after the requests of order are handled one after another.
RECURSIVE SerialRun(_, _)
SerialRun(collection, order) ==
  IF order = <<>> THEN collection
  ELSE LET r == Head(order)
           outcome == IF r.method = "POST" THEN postJobHandler(collection, r.body)
                      ELSE JobOutcome(r.method, collection, r.id, r.body)
       IN  SerialRun(outcome.jobs, Tail(order))

\* The orders in which the requests of set R can be handled one by one.
Orderings(R) ==
  {f \in [1..Cardinality(R) -> R] : \A a, b \in 1..Cardinality(R) : a # b => f[a] # f[b]}

\* The requests whose handler has returned.
Completed == (arrived \ inflight) \ {a.request : a \in active}

\* C7: with requests arriving together, the array is at every moment what
\* handling the completed requests one after another, in some order, gives
\* (so no update is lost), and a handler about to write holds the index that
\* a lookup on the array as it is now would give.
C7_Serializable ==
  /\ \E order \in Orderings(Completed) : jobs = SerialRun(start, order)
  /\ \A a \in active :
       (a.pc = "write" /\ a.request.method # "POST") =>
         a.jobIndex = FindIndex(jobs, parseInt(a.request.id, 10))

\* C7 witness: three requests that arrived together on the same record have
\* all been handled, and the order of handling mattered.
C7_Witness ==
  /\ Cardinality(arrived) = 3 /\ Completed = arrived
  /\ \E r \in arrived : r.method = "PATCH" /\ r.id = <<"1">>
  /\ \E r \in arrived : r.method = "DELETE" /\ r.id = <<"1">>
  /\ \E o1, o2 \in Orderings(arrived) : SerialRun(start, o1) # SerialRun(start, o2)

====
